---- MODULE Spec2Model ----
(***************************************************************************)
(* A model of akhamoth's lexical front end: the SourceMap (source.rs), the *)
(* lexer (lexer.rs), the stub parser (parser.rs), the compile session      *)
(* (lib.rs) and the akhc driver's diagnostic sink (akhc/src/main.rs).      *)
(*                                                                         *)
(* Texts are sequences of characters; a character is a one-element string, *)
(* except for the named characters LAM (a two-byte letter) and NUL.     *)
(* Byte offsets are kept apart from character counts: a slice of a text is *)
(* taken by byte offsets, and fails off a character boundary or past the   *)
(* end, as a Rust str slice does.                                          *)
(*                                                                         *)
(* u32 and i64 are modelled with a reduced width (U32Bits, I64Bits), the   *)
(* model checker's integers being narrower than the program's; every u32   *)
(* operation wraps or aborts at that width exactly as the program's does   *)
(* at 32 bits.                                                             *)
(***************************************************************************)
EXTENDS Integers, Sequences, FiniteSets, TLC

\* ------------------------------------------------------------ bounds
\* width of the model's u32 (offsets, spans)
U32Bits == 5
\* width of the model's i64 (integer literal values)
I64Bits == 10
\* longest text of LexTexts, in characters
MaxLen == 3
\* most compile calls of one session
MaxFiles == 3

U32Mod == 2 ^ U32Bits
U32Max == U32Mod - 1
I64Max == 2 ^ (I64Bits - 1) - 1

\* overflow-checks on (debug: an overflowing +,- aborts) or off (release: wraps)
Builds == {"debug", "release"}

\* ------------------------------------------------------------ characters
LAM == "lambda"
NUL == "nul"

Utf8Len(c) == IF c = LAM THEN 2 ELSE 1

\* the byte of an ASCII character that number() does arithmetic on
Ord(c) ==
    CASE c = "0" -> 48 [] c = "1" -> 49 [] c = "7" -> 55 [] c = "9" -> 57
      [] c = "F" -> 70 [] c = "_" -> 95
      [] c = "a" -> 97 [] c = "b" -> 98 [] c = "f" -> 102 [] c = "g" -> 103
      [] c = "o" -> 111 [] c = "x" -> 120
      [] OTHER -> 0

Digits == {"0", "1", "7", "9"}
Letters == {"a", "b", "f", "g", "o", "x", "F", LAM}

\* every character of the model's texts, and the NUL peek returns at the end
Chars ==
    Digits \cup Letters
    \cup {" ", "\n", "\t", "_", "\"", "\\", "/", "|", ",", ":", ";", "(", "[", "{", ")", "]", "}",
          "+", "-", "*", "=", ".", "%", "<", ">", "@", "#", NUL}

char_is_whitespace(c) == c \in {" ", "\n", "\t"}
is_xid_start(c) == c \in Letters
is_xid_continue(c) == c \in Letters \cup Digits \cup {"_"}

\* char::to_digit: the digit value of c in the radix, or -1 for None
to_digit(c, radix) ==
    LET v == IF c \in Digits THEN Ord(c) - 48
             ELSE IF c \in {"a", "b", "f", "g", "o", "x"} THEN Ord(c) - 97 + 10
             ELSE IF c = "F" THEN Ord(c) - 65 + 10
             ELSE -1
    IN IF v >= 0 /\ v < radix THEN v ELSE -1

is_digit(c, radix) == to_digit(c, radix) >= 0

is_id_start(c) == c = "_" \/ is_xid_start(c)

is_id_continue(c) == is_xid_continue(c)

is_unknown(c) ==
    ~(char_is_whitespace(c)
      \/ is_xid_continue(c)
      \/ c \in {"\"", "/", "|", ":", ";", "(", "[", "{", ")", "]", "}",
                "+", "-", "*", "=", ".", "%", "<", ">"})

\* ------------------------------------------------------------ str
\* str::len: the bytes of a text, counted as the pairs (character, byte of it)
ByteLen(s) == Cardinality({p \in (1..Len(s)) \X (1..2) : p[2] <= Utf8Len(s[p[1]])})

is_char_boundary(s, n) == \E k \in 0..Len(s) : ByteLen(SubSeq(s, 1, k)) = n

CharIndex(s, n) == CHOOSE k \in 0..Len(s) : ByteLen(SubSeq(s, 1, k)) = n

\* &s[a..b] succeeds iff a <= b and both are character boundaries of s
SliceOk(s, a, b) == a <= b /\ is_char_boundary(s, a) /\ is_char_boundary(s, b)

Slice(s, a, b) == SubSeq(s, CharIndex(s, a) + 1, CharIndex(s, b))

\* slice::partition_point on a partitioned slice: the number of leading
\* elements that satisfy the predicate.  On a slice that is not partitioned
\* the result is unspecified: any index 0..len.
\* pred[i] tells whether element i satisfies the predicate.
PartitionPoints(pred) ==
    LET n == Len(pred)
        parts == {k \in 0..n : (\A i \in 1..k : pred[i]) /\ (\A i \in (k+1)..n : ~pred[i])}
    IN IF parts # {} THEN parts ELSE 0..n

\* ------------------------------------------------------------ integers
as_u32(n) == n % U32Mod

\* a + b on u32: aborts on overflow when overflow checks are on, wraps otherwise
u32_add(a, b, build) ==
    IF a + b <= U32Max THEN [panic |-> FALSE, val |-> a + b]
    ELSE IF build = "debug" THEN [panic |-> TRUE, val |-> 0]
    ELSE [panic |-> FALSE, val |-> (a + b) % U32Mod]

\* a - b on u32
u32_sub(a, b, build) ==
    IF a >= b THEN [panic |-> FALSE, val |-> a - b]
    ELSE IF build = "debug" THEN [panic |-> TRUE, val |-> 0]
    ELSE [panic |-> FALSE, val |-> (a - b) + U32Mod]

\* a multiplication that wraps at the width of the i64 instead of failing
wrapping_mul(a, b) == (a * b) % (I64Max + 1)

\* i64::checked_mul and i64::checked_add on non-negative operands: -1 is None
checked_mul(a, b) == IF a * b <= I64Max THEN a * b ELSE -1

checked_add(a, b) == IF a + b <= I64Max THEN a + b ELSE -1

\* ------------------------------------------------------------ Cursor
\* Cursor { len_remaining, pos, chars }: chars is the unconsumed text
CursorNew(input) ==
    [len_remaining |-> ByteLen(input.src), pos |-> input.start_pos, chars |-> input.src]

peek(chars) == IF chars = <<>> THEN NUL ELSE Head(chars)

\* the text left after bumping while predicate(peek()) && !is_eof(); the
\* predicate is given as the set of the characters it accepts
eat_while(chars, predicate) ==
    LET n == CHOOSE k \in 0..Len(chars) :
                 /\ \A i \in 1..k : chars[i] \in predicate
                 /\ (k = Len(chars) \/ chars[k + 1] \notin predicate)
    IN SubSeq(chars, n + 1, Len(chars))

token_length(len_remaining, chars) == len_remaining - ByteLen(chars)

\* what one arm of next_token's match leaves behind: the text still unconsumed,
\* the TokenInner it built, and the abort it ran into ("" for none)
Inner(chars, kind, sub, text) ==
    [chars |-> chars, kind |-> kind, sub |-> sub, text |-> text, unclosed |-> FALSE,
     ok |-> TRUE, val |-> 0, err |-> "", errc |-> "", radix |-> 0, panic |-> ""]

Panicked(what) == [Inner(<<>>, "", "", <<>>) EXCEPT !.panic = what]

\* the u8 arithmetic of lexer.rs 230-234 on one digit byte; -1 when it aborts
digit_value(c, build) ==
    IF Ord(c) >= 97 /\ Ord(c) <= 102 THEN Ord(c) + 10 - 97
    ELSE IF Ord(c) >= 65 /\ Ord(c) <= 70 THEN Ord(c) + 10 - 65
    ELSE IF Ord(c) >= 48 THEN Ord(c) - 48
    ELSE IF build = "debug" THEN -1
    ELSE Ord(c) - 48 + 256

\* the fold of lexer.rs 223-237 over the bytes of source[lo..len]:
\* [ok, val] with ok = FALSE for Err(Overflow), or [panic]
RECURSIVE fold_digits(_, _, _, _)
fold_digits(val, digits, base, build) ==
    IF digits = <<>> THEN [panic |-> "", ok |-> TRUE, val |-> val]
    ELSE IF Head(digits) = "_" THEN fold_digits(val, Tail(digits), base, build)
    ELSE LET d == digit_value(Head(digits), build)
             m == checked_mul(val, base)
             a == IF m < 0 THEN -1 ELSE checked_add(m, d)
         IN IF d < 0 THEN [panic |-> "underflow", ok |-> FALSE, val |-> 0]
            ELSE IF a < 0 THEN [panic |-> "", ok |-> FALSE, val |-> 0]
            ELSE fold_digits(a, Tail(digits), base, build)

\* a number that rejects a literal with no digit after its prefix
number_value_rejects_empty(len_remaining, rest, source, first_char, lo, base, build) ==
    LET first == to_digit(first_char, base)
        len == token_length(len_remaining, rest)
    IN IF first < 0 THEN Panicked("unwrap")
       ELSE IF ~SliceOk(source, lo, len) THEN Panicked("slice")
       ELSE IF lo # 0 /\ \A k \in 1..Len(Slice(source, lo, len)) : Slice(source, lo, len)[k] = "_"
       THEN [Inner(rest, "IntLiteral", "", <<>>) EXCEPT !.ok = FALSE, !.err = "Empty"]
       ELSE LET f == fold_digits(first, Slice(source, lo, len), base, build)
            IN IF f.panic # "" THEN Panicked(f.panic)
               ELSE IF ~f.ok
               THEN [Inner(rest, "IntLiteral", "", <<>>) EXCEPT !.ok = FALSE, !.err = "Overflow"]
               ELSE [Inner(rest, "IntLiteral", "", <<>>) EXCEPT !.val = f.val]

\* the value half of number (lexer.rs 219-239), once the loop has left rest
\* unconsumed without meeting an invalid digit
number_value(len_remaining, rest, source, first_char, lo, base, build) ==
    LET first == to_digit(first_char, base)
        len == token_length(len_remaining, rest)
    IN IF first < 0 THEN Panicked("unwrap")
       ELSE IF ~SliceOk(source, lo, len) THEN Panicked("slice")
       ELSE LET f == fold_digits(first, Slice(source, lo, len), base, build)
            IN IF f.panic # "" THEN Panicked(f.panic)
               ELSE IF ~f.ok
               THEN [Inner(rest, "IntLiteral", "", <<>>) EXCEPT !.ok = FALSE, !.err = "Overflow"]
               ELSE [Inner(rest, "IntLiteral", "", <<>>) EXCEPT !.val = f.val]

\* a number that leaves the run after an invalid digit to the next token
number_loop_stops(len_remaining, rest, source, first_char, lo, base, build) ==
    IF is_id_continue(peek(rest))
    THEN [Inner(rest, "IntLiteral", "", <<>>)
            EXCEPT !.ok = FALSE, !.err = "InvalidDigit", !.errc = peek(rest), !.radix = base]
    ELSE number_value(len_remaining, rest, source, first_char, lo, base, build)

\* the loop of number (lexer.rs 207-217) at the point where it stops bumping:
\* rest is what the digits and separators left unconsumed
number_loop(len_remaining, rest, source, first_char, lo, base, build) ==
    IF is_id_continue(peek(rest))
    THEN [Inner(eat_while(rest, {c \in Chars : is_id_continue(c)}), "IntLiteral", "", <<>>)
            EXCEPT !.ok = FALSE, !.err = "InvalidDigit", !.errc = peek(rest), !.radix = base]
    ELSE number_value(len_remaining, rest, source, first_char, lo, base, build)

\* the prefix half of number (lexer.rs 192-205), with the prefix found
number_prefix(len_remaining, chars, source, first_char, lo, base, build) ==
    number_loop(len_remaining,
                eat_while(IF lo # 0 THEN Tail(chars) ELSE chars,
                          {c \in Chars : c = "_" \/ is_digit(c, base)}),
                source, first_char, lo, base, build)

\* Cursor::number.  chars: the text after the first digit; source: the text
\* from the first digit on.
number(len_remaining, chars, source, first_char, build) ==
    IF first_char = "0" /\ peek(chars) = "b"
    THEN number_prefix(len_remaining, chars, source, first_char, 2, 2, build)
    ELSE IF first_char = "0" /\ peek(chars) = "o"
    THEN number_prefix(len_remaining, chars, source, first_char, 2, 8, build)
    ELSE IF first_char = "0" /\ peek(chars) = "x"
    THEN number_prefix(len_remaining, chars, source, first_char, 2, 16, build)
    ELSE number_prefix(len_remaining, chars, source, first_char, 0, 10, build)

FirstQuote(chars) ==
    CHOOSE k \in 1..Len(chars) : chars[k] = "\"" /\ \A j \in 1..(k - 1) : chars[j] # "\""

\* a loop that ends the literal at the first quote, escaped or not
string_loop_no_escape(chars) ==
    IF \E k \in 1..Len(chars) : chars[k] = "\""
    THEN [closed |-> TRUE,
          chars |-> SubSeq(chars, 1 + FirstQuote(chars), Len(chars))]
    ELSE [closed |-> FALSE, chars |-> <<>>]

\* the while-let loop of string_literal: the text after the closing quote, or
\* closed = FALSE when the text ran out first
RECURSIVE string_loop(_)
string_loop(chars) ==
    IF chars = <<>> THEN [closed |-> FALSE, chars |-> <<>>]
    ELSE LET c == Head(chars)
             rest == Tail(chars)
         IN IF c = "\"" THEN [closed |-> TRUE, chars |-> rest]
            ELSE IF c = "\\" /\ (peek(rest) = "\\" \/ peek(rest) = "\"")
            THEN string_loop(Tail(rest))
            ELSE string_loop(rest)

unescape(s) == s

\* the closed arm of string_literal (lexer.rs 247-253); rest: the text after
\* the closing quote
string_closed(len_remaining, source, rest) ==
    LET tl == token_length(len_remaining, rest)
    IN IF tl < 2 THEN Panicked("underflow")
       ELSE IF ~SliceOk(source, 0, tl - 2) THEN Panicked("slice")
       ELSE Inner(rest, "StringLiteral", "", unescape(Slice(source, 0, tl - 2)))

\* the recovery of string_literal (lexer.rs 261-269); rest: what eat_while left
\* after the cursor was put back to source
string_unclosed(len_remaining, source, rest) ==
    LET len == token_length(len_remaining, rest)
    IN IF ~SliceOk(source, 0, len) THEN Panicked("slice")
       ELSE [Inner(rest, "StringLiteral", "", Slice(source, 0, len)) EXCEPT !.unclosed = TRUE]

\* string_literal, given what its loop found
string_found(len_remaining, source, scan) ==
    IF scan.closed THEN string_closed(len_remaining, source, scan.chars)
    ELSE string_unclosed(len_remaining, source, eat_while(source, {c \in Chars : c # "\n"}))

\* Cursor::string_literal.  chars: the text after the opening quote.
string_literal(len_remaining, chars) == string_found(len_remaining, chars, string_loop(chars))

\* the Identifier arm of next_token; rest: what eat_while left
identifier(len_remaining, source, rest) ==
    LET len == token_length(len_remaining, rest)
    IN IF SliceOk(source, 0, len) THEN Inner(rest, "Identifier", "", Slice(source, 0, len))
       ELSE Panicked("slice")

\* the Comment arm of next_token; rest: what eat_while left
comment(len_remaining, source, rest) ==
    LET len == token_length(len_remaining, rest)
    IN IF SliceOk(source, 2, len) THEN Inner(rest, "Comment", "", Slice(source, 2, len))
       ELSE Panicked("slice")

\* the match of next_token on the first character.  source: the text from the
\* first character on.
token_inner(len_remaining, source, build) ==
    LET first == Head(source)
        chars == Tail(source)
    IN IF char_is_whitespace(first)
       THEN Inner(eat_while(chars, {c \in Chars : char_is_whitespace(c)}), "Whitespace", "", <<>>)
       ELSE IF is_id_start(first)
       THEN identifier(len_remaining, source, eat_while(chars, {c \in Chars : is_id_continue(c)}))
       ELSE IF first \in Digits THEN number(len_remaining, chars, source, first, build)
       ELSE CASE first = "\"" -> string_literal(len_remaining, chars)
              [] first = "/" ->
                   IF peek(chars) = "/"
                   THEN comment(len_remaining, source, eat_while(chars, {c \in Chars : c # "\n"}))
                   ELSE Inner(chars, "Operator", "Div", <<>>)
              [] first = "|" -> Inner(chars, "Pipe", "", <<>>)
              [] first = "," -> Inner(chars, "Comma", "", <<>>)
              [] first = ":" -> Inner(chars, "Colon", "", <<>>)
              [] first = ";" -> Inner(chars, "Semicolon", "", <<>>)
              [] first = "(" -> Inner(chars, "OpenDelim", "Paren", <<>>)
              [] first = "[" -> Inner(chars, "OpenDelim", "Bracket", <<>>)
              [] first = "{" -> Inner(chars, "OpenDelim", "Brace", <<>>)
              [] first = ")" -> Inner(chars, "CloseDelim", "Paren", <<>>)
              [] first = "]" -> Inner(chars, "CloseDelim", "Bracket", <<>>)
              [] first = "}" -> Inner(chars, "CloseDelim", "Brace", <<>>)
              [] first = "+" -> Inner(chars, "Operator", "Plus", <<>>)
              [] first = "-" ->
                   IF peek(chars) = ">" THEN Inner(Tail(chars), "Operator", "Arrow", <<>>)
                   ELSE Inner(chars, "Operator", "Minus", <<>>)
              [] first = "*" -> Inner(chars, "Operator", "Mul", <<>>)
              [] first = "=" ->
                   IF peek(chars) = ">" THEN Inner(Tail(chars), "Operator", "FatArrow", <<>>)
                   ELSE Inner(chars, "Operator", "Equals", <<>>)
              [] first = "." -> Inner(chars, "Operator", "Dot", <<>>)
              [] first = "%" -> Inner(chars, "Operator", "Percent", <<>>)
              [] OTHER -> Inner(eat_while(chars, {c \in Chars : is_unknown(c)}), "Unrecognized", "", <<>>)

NoToken ==
    [lo |-> 0, len |-> 0, kind |-> "", sub |-> "", text |-> <<>>, unclosed |-> FALSE,
     ok |-> TRUE, val |-> 0, err |-> "", errc |-> "", radix |-> 0]

\* the end of next_token (lexer.rs 184-186): the span, reset_token, the token
token_done(cur, inner, build) ==
    LET tl == token_length(cur.len_remaining, inner.chars)
        pos == u32_add(cur.pos, as_u32(tl), build)
    IN IF inner.panic # ""
       THEN [some |-> FALSE, panic |-> inner.panic, cur |-> cur, tok |-> NoToken]
       ELSE IF pos.panic
       THEN [some |-> FALSE, panic |-> "overflow", cur |-> cur, tok |-> NoToken]
       ELSE [some |-> TRUE, panic |-> "",
             cur |-> [len_remaining |-> ByteLen(inner.chars), pos |-> pos.val,
                      chars |-> inner.chars],
             tok |-> [lo |-> cur.pos, len |-> as_u32(tl), kind |-> inner.kind,
                      sub |-> inner.sub, text |-> inner.text,
                      unclosed |-> inner.unclosed, ok |-> inner.ok,
                      val |-> inner.val, err |-> inner.err, errc |-> inner.errc,
                      radix |-> inner.radix]]

\* Cursor::next_token: [some, panic, cur, tok]; some = FALSE for None
next_token(cur, build) ==
    IF cur.chars = <<>>
    THEN [some |-> FALSE, panic |-> "", cur |-> cur, tok |-> NoToken]
    ELSE token_done(cur, token_inner(cur.len_remaining, cur.chars, build), build)

\* whether the token is one of the public sequence's
is_whitespace(tok) == tok.kind = "Whitespace"

\* a tokenize that loses the flag of the token after a Whitespace token
after_whitespace_unflagged(t, n) ==
    [some |-> n.some, panic |-> n.panic, cur |-> n.cur, tok |-> n.tok,
     flag |-> FALSE, first |-> t.tok, mid |-> t.cur]

\* the item of tokenize after a Whitespace token: the next token, flagged
after_whitespace(t, n) ==
    [some |-> n.some, panic |-> n.panic, cur |-> n.cur, tok |-> n.tok,
     flag |-> TRUE, first |-> t.tok, mid |-> t.cur]

\* the closure of tokenize, given the token t its first next_token call returned
tokenize_with(cur, t, build) ==
    IF t.panic # "" \/ ~t.some
    THEN [some |-> FALSE, panic |-> t.panic, cur |-> t.cur, tok |-> NoToken,
          flag |-> FALSE, first |-> NoToken, mid |-> cur]
    ELSE IF is_whitespace(t.tok)
    THEN after_whitespace(t, next_token(t.cur, build))
    ELSE [some |-> TRUE, panic |-> "", cur |-> t.cur, tok |-> t.tok,
          flag |-> FALSE, first |-> NoToken, mid |-> cur]

\* one call of the closure tokenize hands to iter::from_fn:
\* [some, panic, cur, tok, flag, first, mid]; first is the Whitespace token the
\* call skipped (kind "" when it skipped none) and mid the cursor after it
tokenize(cur, build) == tokenize_with(cur, next_token(cur, build), build)

\* ------------------------------------------------------------ SourceFile
\* the Vec<u32> of newline byte offsets SourceFile::new collects
line_offsets(src) ==
    LET at == {j \in 1..Len(src) : src[j] = "\n"}
        nth(k) == CHOOSE j \in at : Cardinality({i \in at : i < j}) = k - 1
    IN [k \in 1..Cardinality(at) |-> as_u32(ByteLen(SubSeq(src, 1, nth(k) - 1)))]

\* SourceFile::new on the text read_to_string returned
SourceFileNew(path, src, start_pos) ==
    [path |-> path, src |-> src, start_pos |-> start_pos, lines |-> line_offsets(src)]

\* SourceFile::line_number: every value partition_point may return, plus one
line_number(file, byte_offset) ==
    {k + 1 : k \in PartitionPoints([i \in 1..Len(file.lines) |-> file.lines[i] < byte_offset])}

\* SourceFile::end_position: start_pos + src.len() as u32, on u32
end_position(file, build) == u32_add(file.start_pos, as_u32(ByteLen(file.src)), build)

\* ------------------------------------------------------------ SourceMap
\* a load_file that pushes the file before reading it: a read that fails
\* leaves an empty file behind
load_file_pushes_first(files, path, read, build) ==
    LET e == IF files = <<>> THEN [panic |-> FALSE, val |-> 0]
             ELSE end_position(files[Len(files)], build)
        start_pos == IF files = <<>> THEN 0 ELSE e.val + 1
    IN IF e.panic THEN [panic |-> "overflow", result |-> "", files |-> files]
       ELSE IF start_pos > U32Max
       THEN [panic |-> "", result |-> "OffsetOverflowError", files |-> files]
       ELSE IF ~read.ok
       THEN [panic |-> "", result |-> "Io",
             files |-> Append(files, SourceFileNew(path, <<>>, start_pos))]
       ELSE [panic |-> "", result |-> "Ok",
             files |-> Append(files, SourceFileNew(path, read.text, start_pos))]

\* SourceMap::load_file on the result read of fs::read_to_string:
\* [panic, result, files], result one of "Ok", "OffsetOverflowError", "Io"
load_file(files, path, read, build) ==
    LET e == IF files = <<>> THEN [panic |-> FALSE, val |-> 0]
             ELSE end_position(files[Len(files)], build)
        start_pos == IF files = <<>> THEN 0 ELSE e.val + 1
    IN IF e.panic THEN [panic |-> "overflow", result |-> "", files |-> files]
       ELSE IF start_pos > U32Max
       THEN [panic |-> "", result |-> "OffsetOverflowError", files |-> files]
       ELSE IF ~read.ok THEN [panic |-> "", result |-> "Io", files |-> files]
       ELSE [panic |-> "", result |-> "Ok",
             files |-> Append(files, SourceFileNew(path, read.text, start_pos))]

\* SourceMap::lookup_source_file: the indices (1-based) of the files it may
\* return; 0 stands for the abort of `partition_point(..) - 1` at 0, whose wrapped
\* value indexes past the end of files
lookup_source_file(files, pos) ==
    PartitionPoints([i \in 1..Len(files) |-> files[i].start_pos <= pos])

\* SourceMap::span_to_string: the outcomes [panic, text]
span_to_string(files, lo, len, build) ==
    {LET file == files[k]
         l == u32_sub(lo, file.start_pos, build)
     IN IF l.panic THEN [panic |-> "underflow", text |-> <<>>]
        ELSE IF ~SliceOk(file.src, l.val, l.val + len)
        THEN [panic |-> "slice", text |-> <<>>]
        ELSE [panic |-> "", text |-> Slice(file.src, l.val, l.val + len)]
     : k \in lookup_source_file(files, lo) \ {0}}
    \cup {[panic |-> "index", text |-> <<>>] : k \in lookup_source_file(files, lo) \cap {0}}

\* SourceMap::span_to_location: the outcomes [panic, file, line, col]
span_to_location(files, lo, build) ==
    UNION {LET file == files[k]
               offset == u32_sub(lo, file.start_pos, build)
           IN IF offset.panic
              THEN {[panic |-> "underflow", file |-> k, line |-> 0, col |-> 0]}
              ELSE {IF line < 2
                    THEN [panic |-> "index", file |-> k, line |-> line, col |-> 0]
                    ELSE LET col == u32_sub(lo, file.lines[line - 1], build)
                         IN IF col.panic
                            THEN [panic |-> "underflow", file |-> k, line |-> line, col |-> 0]
                            ELSE [panic |-> "", file |-> k, line |-> line, col |-> col.val]
                    : line \in line_number(file, offset.val)}
           : k \in lookup_source_file(files, lo) \ {0}}
    \cup {[panic |-> "index", file |-> 0, line |-> 0, col |-> 0]
          : k \in lookup_source_file(files, lo) \cap {0}}

\* ------------------------------------------------------------ inputs
Alphabet == {" ", "\n", "b", "x", "0", "9", "_", "\"", "\\", "/", "-", ">", ",", "@", LAM}

\* the scenarios of the specification's section 8
Scenarios ==
    {<<"f", "o", "o", "(", "1", ",", " ", "0", "x", "F", "F", ")">>,
     <<"0", "x", "g", "1">>,
     <<"9", "9", "9", "9">>,
     <<"\"", "a", "b", "f">>,
     <<"a", " ", " ", "-", ">", "b">>}

\* longer texts: a flagged and an unflagged token before trailing whitespace;
\* a literal with an invalid digit on a second line, before a comma; a decimal
\* and a hexadecimal literal beyond the i64 range on a second line; closed
\* strings that hold an escaped quote and an escaped backslash; octal prefixes
\* with no digit after them
Extras ==
    {<<"b", " ", "-", ">", " ">>,
     <<"\n", "0", "x", "g", "1", ",">>,
     <<"\n", "9", "9", "9", "9">>,
     <<"\n", "0", "x", "F", "F", "F">>,
     <<"\"", "\\", "\"", "\"", "b">>,
     <<"\"", LAM, "\\", "\\", "\"", "\"">>,
     <<"0", "o", "_", ",", "0", "o">>}

LexTexts == UNION {[1..k -> Alphabet] : k \in 0..MaxLen} \cup Scenarios \cup Extras

\* the files of the session's disk; "missing" cannot be read
Paths == {"empty", "newline", "small", "lines", "bad", "big", "huge", "missing"}

\* fs::read_to_string
read_to_string(path) ==
    CASE path = "empty" -> [ok |-> TRUE, text |-> <<>>]
      [] path = "newline" -> [ok |-> TRUE, text |-> <<"\n">>]
      [] path = "small" -> [ok |-> TRUE, text |-> <<"b", "\n", "@">>]
      [] path = "lines" -> [ok |-> TRUE, text |-> <<"\n", "b", "@", "\n", "@">>]
      [] path = "bad" -> [ok |-> TRUE, text |-> <<"@">>]
      [] path = "big" -> [ok |-> TRUE, text |-> [i \in 1..(U32Max - 2) |-> "b"]]
      [] path = "huge" ->
           [ok |-> TRUE, text |-> [i \in 1..(U32Mod + 1) |-> "b"] \o <<"\n", "@">>]
      [] OTHER -> [ok |-> FALSE, text |-> <<>>]

\* ------------------------------------------------------------ state
VARIABLES
    build,      \* how the program was built: overflow checks on or off
    files,      \* SourceMap.files
    calls,      \* the compile calls main has made
    pc,         \* "idle": between compile calls; "lexing": inside Parser::parse;
                \* "aborted": the process has panicked
    panic,      \* where and why it panicked, <<>> if it has not
    cursor,     \* the Cursor tokenize holds
    raw,        \* every token next_token returned for the file being compiled,
                \* with the local byte offset it starts at and the bytes it used
    emitted,    \* the items Parser::parse has taken from tokenize for that file
    errors,     \* Diagnostics.errors
    diags,      \* the error reports the sink has received
    ret,        \* what the last compile call returned
    q           \* the last call of a SourceMap query and what it returned

vars == <<build, files, calls, pc, panic, cursor, raw, emitted, errors, diags, ret, q>>

\* again: what a second span_to_location call, made after the first returned,
\* was asked and returned (op "" while none was made)
NoQuery ==
    [op |-> "", lo |-> 0, len |-> 0, tok |-> 0, panic |-> "", file |-> 0, line |-> 0,
     col |-> 0, text |-> <<>>,
     again |-> [op |-> "", lo |-> 0, panic |-> "", file |-> 0, line |-> 0, col |-> 0]]

NoCursor == [len_remaining |-> 0, pos |-> 0, chars |-> <<>>]

\* CompileSession::new(Diagnostics::new(color)) with SourceMap::default()
Init ==
    /\ build \in Builds
    /\ files = <<>>
    /\ calls = 0
    /\ pc = "idle"
    /\ panic = <<>>
    /\ cursor = NoCursor
    /\ raw = <<>>
    /\ emitted = <<>>
    /\ errors = 0
    /\ diags = <<>>
    /\ ret = ""
    /\ q = NoQuery

\* the state in which compile_sf starts on a first file holding any text of LexTexts
LexInit ==
    /\ build \in Builds
    /\ \E t \in LexTexts : files = load_file(<<>>, "input", [ok |-> TRUE, text |-> t], build).files
    /\ calls = 1
    /\ pc = "lexing"
    /\ panic = <<>>
    /\ cursor = CursorNew(files[1])
    /\ raw = <<>>
    /\ emitted = <<>>
    /\ errors = 0
    /\ diags = <<>>
    /\ ret = ""
    /\ q = NoQuery

\* the file compile_sf is working on
CurrentFile == files[Len(files)]

\* the patterns of Parser::parse that report an error
malformed(tok) ==
    \/ tok.kind = "StringLiteral" /\ tok.unclosed
    \/ tok.kind = "IntLiteral" /\ ~tok.ok
    \/ tok.kind = "Unrecognized"

\* the message Parser::parse reports for a malformed token
message(tok) ==
    IF tok.kind = "StringLiteral" THEN "unclosed string literal"
    ELSE IF tok.kind = "IntLiteral" THEN tok.err
    ELSE "unrecognized token"

\* a token as raw and emitted keep it: with the local byte offset of its first
\* byte and the number of bytes next_token consumed for it
Consumed(tok, before, after, flag) ==
    [tok |-> tok, flag |-> flag,
     off |-> ByteLen(CurrentFile.src) - before.len_remaining,
     used |-> before.len_remaining - after.len_remaining]

\* a compile that returns a load error without reporting it
Compiled_unreported(path, r) ==
    /\ files' = r.files
    /\ pc' = IF r.panic # "" THEN "aborted" ELSE IF r.result = "Ok" THEN "lexing" ELSE "idle"
    /\ panic' = IF r.panic # "" THEN <<"load_file", r.panic>> ELSE panic
    /\ cursor' = IF r.panic = "" /\ r.result = "Ok"
                 THEN CursorNew(r.files[Len(r.files)]) ELSE cursor
    /\ errors' = errors
    /\ diags' = diags
    /\ ret' = IF r.panic # "" THEN ret ELSE IF r.result = "Ok" THEN "" ELSE r.result

\* CompileSession::compile on the outcome r of load_file: compile_sf on success,
\* or one error report with Context::File on failure
Compiled(path, r) ==
    /\ files' = r.files
    /\ pc' = IF r.panic # "" THEN "aborted" ELSE IF r.result = "Ok" THEN "lexing" ELSE "idle"
    /\ panic' = IF r.panic # "" THEN <<"load_file", r.panic>> ELSE panic
    /\ cursor' = IF r.panic = "" /\ r.result = "Ok"
                 THEN CursorNew(r.files[Len(r.files)]) ELSE cursor
    /\ errors' = IF r.panic = "" /\ r.result # "Ok" THEN errors + 1 ELSE errors
    /\ diags' = IF r.panic = "" /\ r.result # "Ok"
                THEN Append(diags, [ctx |-> "File", path |-> path, lo |-> 0, len |-> 0,
                                    msg |-> r.result])
                ELSE diags
    /\ ret' = IF r.panic # "" THEN ret ELSE IF r.result = "Ok" THEN "" ELSE r.result

\* a call of CompileSession::compile by main
Compile(path) ==
    /\ pc = "idle"
    /\ calls < MaxFiles
    /\ Compiled(path, load_file(files, path, read_to_string(path), build))
    /\ calls' = calls + 1
    /\ raw' = <<>>
    /\ emitted' = <<>>
    /\ q' = NoQuery
    /\ UNCHANGED build

NoLocation == [panic |-> "", file |-> 0, line |-> 0, col |-> 0]

\* what the sink's call of span_to_location may return for the item; the sink
\* (akhc Diagnostics::error) formats the location of every error it is given
SinkLocations(it) ==
    IF it.some /\ malformed(it.tok) THEN span_to_location(files, it.tok.lo, build)
    ELSE {NoLocation}

\* the body of the for loop of Parser::parse on the item it (nothing when the
\* sequence ended), loc being what the sink's span_to_location call returned
ParseItem(it, loc) ==
    /\ cursor' = it.cur
    /\ raw' = raw
              \o (IF it.first.kind = "" THEN <<>>
                  ELSE <<Consumed(it.first, cursor, it.mid, FALSE)>>)
              \o (IF it.some THEN <<Consumed(it.tok, it.mid, it.cur, it.flag)>> ELSE <<>>)
    /\ emitted' = IF it.some THEN Append(emitted, Consumed(it.tok, it.mid, it.cur, it.flag))
                  ELSE emitted
    /\ errors' = IF it.some /\ malformed(it.tok) THEN errors + 1 ELSE errors
    /\ diags' = IF it.some /\ malformed(it.tok)
                THEN Append(diags, [ctx |-> "Span", path |-> "", lo |-> it.tok.lo,
                                    len |-> it.tok.len, msg |-> message(it.tok)])
                ELSE diags
    /\ pc' = IF it.panic # "" \/ loc.panic # "" THEN "aborted"
             ELSE IF it.some THEN "lexing" ELSE "idle"
    /\ panic' = IF it.panic # "" THEN <<"next_token", it.panic>>
                ELSE IF loc.panic # "" THEN <<"span_to_location", loc.panic>>
                ELSE panic
    /\ ret' = IF it.panic = "" /\ ~it.some THEN "Ok" ELSE ret

\* the for loop of Parser::parse on one item of tokenize
ParseNext(it) == \E loc \in SinkLocations(it) : ParseItem(it, loc)

\* one turn of the for loop of Parser::parse: take the next item from tokenize
\* and, for a malformed token, report an error to the driver's sink, which counts
\* it and formats its location
NextItem ==
    /\ pc = "lexing"
    /\ ParseNext(tokenize(cursor, build))
    /\ UNCHANGED <<build, files, calls, q>>

\* The queries below read the SourceMap and change nothing of the program's
\* state, so one query after each compile call shows all that any number shows:
\* q = NoQuery keeps them to one.

\* a call of lookup_source_file between compile calls
LookupSourceFile(pos) ==
    /\ pc = "idle"
    /\ q = NoQuery
    /\ \E k \in lookup_source_file(files, pos) :
         q' = [NoQuery EXCEPT !.op = "lookup_source_file", !.lo = pos, !.file = k,
                              !.panic = IF k = 0 THEN "index" ELSE ""]
    /\ UNCHANGED <<build, files, calls, pc, panic, cursor, raw, emitted, errors, diags, ret>>

\* a call of span_to_location between compile calls
SpanToLocation(lo) ==
    /\ pc = "idle"
    /\ q = NoQuery
    /\ \E loc \in span_to_location(files, lo, build) :
         q' = [NoQuery EXCEPT !.op = "span_to_location", !.lo = lo, !.file = loc.file,
                              !.line = loc.line, !.col = loc.col, !.panic = loc.panic]
    /\ UNCHANGED <<build, files, calls, pc, panic, cursor, raw, emitted, errors, diags, ret>>

\* a second call of span_to_location, at a higher offset, after a first call
\* that returned
SpanToLocationAgain(lo) ==
    /\ pc = "idle"
    /\ q.op = "span_to_location" /\ q.panic = "" /\ q.again.op = ""
    /\ lo > q.lo
    /\ \E loc \in span_to_location(files, lo, build) :
         q' = [q EXCEPT !.again = [op |-> "span_to_location", lo |-> lo, panic |-> loc.panic,
                                   file |-> loc.file, line |-> loc.line, col |-> loc.col]]
    /\ UNCHANGED <<build, files, calls, pc, panic, cursor, raw, emitted, errors, diags, ret>>

\* a call of span_to_string, between compile calls, on the span of a token of
\* the file compiled last
SpanToString(i) ==
    /\ pc = "idle"
    /\ q = NoQuery
    /\ \E str \in span_to_string(files, raw[i].tok.lo, raw[i].tok.len, build) :
         q' = [NoQuery EXCEPT !.op = "span_to_string", !.lo = raw[i].tok.lo,
                              !.len = raw[i].tok.len, !.tok = i, !.text = str.text,
                              !.panic = str.panic]
    /\ UNCHANGED <<build, files, calls, pc, panic, cursor, raw, emitted, errors, diags, ret>>

Next ==
    \/ \E path \in Paths : Compile(path)
    \/ NextItem
    \/ \E pos \in 0..U32Max : LookupSourceFile(pos)
    \/ \E lo \in 0..U32Max : SpanToLocation(lo)
    \/ \E lo \in 0..U32Max : SpanToLocationAgain(lo)
    \/ \E i \in 1..Len(raw) : SpanToString(i)

Spec == Init /\ [][Next]_vars

\* the session as main drives it, without the queries: they change nothing but q
SessionNext ==
    \/ \E path \in Paths : Compile(path)
    \/ NextItem

SessionSpec == Init /\ [][SessionNext]_vars

LexNext == NextItem

LexSpec == LexInit /\ [][LexNext]_vars

\* ------------------------------------------------------------ claims
\* the bytes of the current file's text a recorded token was made of
TokText(r) == Slice(CurrentFile.src, r.off, r.off + r.used)

\* whether the process aborted inside the named function
AbortedIn(where) == pc = "aborted" /\ panic # <<>> /\ panic[1] = where

\* C1 (totality): pulling tokens from tokenize until it is exhausted never
\* aborts, whatever the text: no call of next_token, number or string_literal
\* panics.
C1_Totality == ~AbortedIn("next_token")

\* C2 (offset disjointness): the first file starts at 0 and every file starts
\* beyond the end of the file before it, so that the ranges are disjoint with a
\* gap of at least one byte.
C2_OffsetDisjointness ==
    /\ files # <<>> => files[1].start_pos = 0
    /\ \A i \in 1..(Len(files) - 1) :
         files[i + 1].start_pos > files[i].start_pos + ByteLen(files[i].src)

\* C3 (address-space exhaustion): no offset computation of load_file or
\* end_position aborts or wraps, and no file is stored with a range that extends
\* past the largest u32: load_file fails with OffsetOverflow instead.
C3_NoWrapNoAbort ==
    /\ ~AbortedIn("load_file")
    /\ \A i \in 1..Len(files) : files[i].start_pos + ByteLen(files[i].src) <= U32Max

\* the radix an integer literal's text selects, and the digits after its prefix
LiteralRadix(text) ==
    IF Len(text) >= 2 /\ text[1] = "0" /\ text[2] \in {"b", "o", "x"}
    THEN (CASE text[2] = "b" -> 2 [] text[2] = "o" -> 8 [] OTHER -> 16)
    ELSE 10

LiteralDigits(text) == IF LiteralRadix(text) = 10 THEN text ELSE SubSeq(text, 3, Len(text))

\* a text made of an optional prefix and then only digits of its radix and `_`
ValidLiteral(text) ==
    /\ text # <<>>
    /\ text[1] \in Digits
    /\ \A i \in 1..Len(LiteralDigits(text)) :
         LiteralDigits(text)[i] = "_" \/ is_digit(LiteralDigits(text)[i], LiteralRadix(text))

\* the value of the digits read in the radix, each digit once, `_` skipped
RECURSIVE DigitsValue(_, _, _)
DigitsValue(acc, digits, radix) ==
    IF digits = <<>> THEN acc
    ELSE IF Head(digits) = "_" THEN DigitsValue(acc, Tail(digits), radix)
    ELSE DigitsValue(acc * radix + to_digit(Head(digits), radix), Tail(digits), radix)

MathValue(text) == DigitsValue(0, LiteralDigits(text), LiteralRadix(text))

\* C4 (numeric decoding): a token made of a valid integer literal whose value
\* fits in an i64 is IntLiteral(Ok(v)) with v the value of its digits in its
\* radix, each digit counted once.
C4_NumericDecoding ==
    \A i \in 1..Len(raw) :
        (/\ raw[i].tok.kind = "IntLiteral"
         /\ ValidLiteral(TokText(raw[i]))
         /\ MathValue(TokText(raw[i])) <= I64Max)
        => raw[i].tok.ok /\ raw[i].tok.val = MathValue(TokText(raw[i]))

\* the local byte offsets of the newlines of a text that lie before offset
NewlinesBefore(src, offset) ==
    {ByteLen(SubSeq(src, 1, k - 1)) : k \in {j \in 1..Len(src) :
        src[j] = "\n" /\ ByteLen(SubSeq(src, 1, j - 1)) < offset}}

SetMax(S) == CHOOSE x \in S : \A y \in S : y <= x

\* C5 (span_to_location): for a span whose lo lies inside a loaded file,
\* span_to_location returns, without aborting, the line 1 + (newlines before
\* the local offset) and the column (local offset) - (local offset of the
\* previous newline, or 0 on line 1).
C5_SpanToLocation ==
    q.op = "span_to_location" =>
        \A i \in 1..Len(files) :
            (files[i].start_pos <= q.lo /\ q.lo < files[i].start_pos + ByteLen(files[i].src))
            => LET offset == q.lo - files[i].start_pos
                   before == NewlinesBefore(files[i].src, offset)
               IN /\ q.panic = ""
                  /\ q.line = 1 + Cardinality(before)
                  /\ q.col = offset - (IF before = {} THEN 0 ELSE SetMax(before))

\* C6 (lookup_source_file): an offset from a file's start_pos to its end,
\* the end included, resolves to that file.
C6_LookupSourceFile ==
    q.op = "lookup_source_file" =>
        \A i \in 1..Len(files) :
            (files[i].start_pos <= q.lo /\ q.lo <= files[i].start_pos + ByteLen(files[i].src))
            => q.panic = "" /\ q.file = i

\* the text from the start of s up to the next line terminator or the end
RECURSIVE RestOfLine(_)
RestOfLine(s) ==
    IF s = <<>> \/ Head(s) = "\n" THEN <<>> ELSE <<Head(s)>> \o RestOfLine(Tail(s))

\* whether the text after an opening quote ends before an unescaped closing quote
RECURSIVE Unterminated(_)
Unterminated(s) ==
    IF s = <<>> THEN TRUE
    ELSE IF Head(s) = "\"" THEN FALSE
    ELSE IF Head(s) = "\\" /\ Len(s) >= 2 /\ s[2] \in {"\\", "\""} THEN Unterminated(SubSeq(s, 3, Len(s)))
    ELSE Unterminated(Tail(s))

\* the text of the current file from local byte offset off on
TextFrom(off) == Slice(CurrentFile.src, off, ByteLen(CurrentFile.src))

\* C7 (unterminated string recovery): a quote with no unescaped closing quote
\* before the end of input gives one StringLiteral token, unclosed, whose
\* content is the text after the quote up to, not including, the next line
\* terminator or the end; its span is the quote plus that content and the next
\* token starts at that line terminator.
C7_UnclosedString ==
    /\ ~(AbortedIn("next_token") /\ peek(cursor.chars) = "\"" /\ Unterminated(Tail(cursor.chars)))
    /\ \A i \in 1..Len(raw) :
         (raw[i].tok.kind = "StringLiteral" /\ raw[i].tok.unclosed)
         => /\ raw[i].tok.text = RestOfLine(Tail(TextFrom(raw[i].off)))
            /\ raw[i].used = 1 + ByteLen(raw[i].tok.text)
            /\ raw[i].tok.len = as_u32(raw[i].used)

\* the character of the current file that ends at local byte offset off
CharBefore(off) == CurrentFile.src[CharIndex(CurrentFile.src, off)]

NotWhitespace(r) == r.tok.kind # "Whitespace"

\* C8 (whitespace filtering and flag): no item of tokenize is a Whitespace
\* token; an item's flag is true exactly when the character just before its
\* token is whitespace (false at the start of the file); and when the sequence
\* has ended the items are the tokens other than Whitespace, so that trailing
\* whitespace gives no item.
C8_WhitespaceFlag ==
    /\ \A i \in 1..Len(emitted) :
         /\ emitted[i].tok.kind # "Whitespace"
         /\ emitted[i].flag <=> (emitted[i].off > 0 /\ char_is_whitespace(CharBefore(emitted[i].off)))
    /\ pc = "idle" => emitted = SelectSeq(raw, NotWhitespace)

\* C8's case: a sequence that ended after a flagged item, an unflagged item and
\* trailing whitespace
C8_Witness ==
    /\ pc = "idle"
    /\ raw # <<>> /\ raw[Len(raw)].tok.kind = "Whitespace"
    /\ \E i, j \in 1..Len(emitted) : emitted[i].flag /\ ~emitted[j].flag

Malformed(r) == malformed(r.tok)

\* the error report Parser::parse owes for a malformed item
ReportFor(r) ==
    [ctx |-> "Span", path |-> "", lo |-> r.tok.lo, len |-> r.tok.len, msg |-> message(r.tok)]

\* C9 (one diagnostic per malformed token): the reports are, in order, one per
\* malformed item taken so far, each with that token's span, none for any other
\* token; and a malformed token never stops the processing.
C9_OneDiagnostic ==
    /\ diags = [i \in 1..Len(SelectSeq(emitted, Malformed)) |->
                  ReportFor(SelectSeq(emitted, Malformed)[i])]
    /\ errors = Len(diags)
    /\ ~AbortedIn("span_to_location")

\* C10 (span fidelity): span_to_string of a token's span returns exactly the
\* bytes of the file's text the token consumed, and the span lies within the
\* file's range.
C10_SpanFidelity ==
    q.op = "span_to_string" =>
        /\ q.panic = ""
        /\ q.text = TokText(raw[q.tok])
        /\ CurrentFile.start_pos <= q.lo
        /\ q.lo + q.len <= CurrentFile.start_pos + ByteLen(CurrentFile.src)

\* whether the global offset lies inside the file: from its start_pos to its
\* last byte
InsideFile(file, pos) == file.start_pos <= pos /\ pos < file.start_pos + ByteLen(file.src)

\* C11 (location monotonicity): for offsets a < b inside the same file,
\* span_to_location gives a location for each, the line of a is at most the
\* line of b, and on the same line the column of a is below the column of b.
C11_LocationMonotonicity ==
    q.op = "span_to_location" =>
        \A i \in 1..Len(files) :
            (InsideFile(files[i], q.lo) /\ InsideFile(files[i], q.lo + 1))
            => /\ q.panic = ""
               /\ (q.again.op # "" /\ InsideFile(files[i], q.again.lo))
                  => /\ q.again.panic = ""
                     /\ q.line <= q.again.line
                     /\ q.line = q.again.line => q.col < q.again.col

\* the part of C11 about two calls that both returned
C11_AmongReturned ==
    (q.op = "span_to_location" /\ q.again.op # "")
    => \A i \in 1..Len(files) :
            (InsideFile(files[i], q.lo) /\ InsideFile(files[i], q.again.lo))
            => /\ q.again.panic = ""
               /\ q.line <= q.again.line
               /\ q.line = q.again.line => q.col < q.again.col

\* the first index from k on of a character of T outside the set S, or
\* Len(T) + 1 when every character from k on is in S
FirstNot(T, k, S) ==
    CHOOSE j \in k..(Len(T) + 1) :
        /\ j = Len(T) + 1 \/ T[j] \notin S
        /\ \A i \in k..(j - 1) : T[i] \in S

DigitOrSeparator(radix) == {c \in Chars : c = "_" \/ is_digit(c, radix)}

IdContinue == {c \in Chars : is_xid_continue(c)}

\* the index in T, the text from a literal's first character on, of the first
\* character after the prefix that is neither a digit of the radix nor `_`
AfterDigits(T) ==
    FirstNot(T, IF LiteralRadix(T) = 10 THEN 2 ELSE 3, DigitOrSeparator(LiteralRadix(T)))

\* whether the literal at the start of T meets an identifier character where
\* it wants a digit
HasInvalidDigit(T) == AfterDigits(T) <= Len(T) /\ T[AfterDigits(T)] \in IdContinue

\* what C12 says of the recorded token r, T being the text from its first
\* character on and k the index of the offending character
InvalidDigitToken(r, T, k) ==
    /\ ~r.tok.ok
    /\ r.tok.err = "InvalidDigit"
    /\ r.tok.errc = T[k]
    /\ r.tok.radix = LiteralRadix(T)
    /\ r.used = ByteLen(SubSeq(T, 1, FirstNot(T, k, IdContinue) - 1))
    /\ r.tok.len = r.used

\* C12 (invalid digit consumes the whole run): a literal that meets, after its
\* prefix and digits, an identifier character that is not a digit of its radix
\* is one token IntLiteral(Err(InvalidDigit(c, radix))), c that character, whose
\* span reaches to the end of the run of identifier characters; the next token
\* starts after the run.
C12_InvalidDigitRun ==
    \A i \in 1..Len(raw) :
        (raw[i].tok.kind = "IntLiteral" /\ HasInvalidDigit(TextFrom(raw[i].off)))
        => /\ InvalidDigitToken(raw[i], TextFrom(raw[i].off), AfterDigits(TextFrom(raw[i].off)))
           /\ i < Len(raw) => /\ raw[i + 1].off = raw[i].off + raw[i].used
                              /\ raw[i + 1].tok.kind \notin {"Identifier", "IntLiteral"}

\* C12's case: `0xg1` lexed as one token of four bytes, the sequence going on
\* to the token after it and ending
C12_Witness ==
    /\ pc = "idle"
    /\ \E i \in 1..(Len(raw) - 1) :
         /\ raw[i].tok.kind = "IntLiteral" /\ raw[i].tok.err = "InvalidDigit"
         /\ raw[i].tok.errc = "g" /\ raw[i].tok.radix = 16 /\ raw[i].used = 4

\* C13 (overflow is reported, never wrapped): a token made of a valid integer
\* literal whose value exceeds the largest i64 is IntLiteral(Err(Overflow));
\* and an IntLiteral(Ok(v)) is never one of a literal beyond that range, nor is
\* v negative or beyond it.
C13_OverflowReported ==
    \A i \in 1..Len(raw) :
        (raw[i].tok.kind = "IntLiteral" /\ ValidLiteral(TokText(raw[i])))
        => /\ MathValue(TokText(raw[i])) > I64Max
              => ~raw[i].tok.ok /\ raw[i].tok.err = "Overflow"
           /\ raw[i].tok.ok
              => /\ MathValue(TokText(raw[i])) <= I64Max
                 /\ raw[i].tok.val >= 0 /\ raw[i].tok.val <= I64Max

\* C13's case: a hexadecimal literal of valid digits beyond the range, lexed
\* and reported, the sequence ending after it
C13_Witness ==
    /\ \E i \in 1..Len(raw) :
         /\ raw[i].tok.kind = "IntLiteral" /\ raw[i].tok.err = "Overflow"
         /\ LiteralRadix(TokText(raw[i])) = 16
         /\ ValidLiteral(TokText(raw[i])) /\ MathValue(TokText(raw[i])) > I64Max
    /\ pc = "idle"

\* the errors load_file returns
LoadErrors == {"Io", "OffsetOverflowError"}

\* what load_file returns for the path in the current state
Loaded(path) == load_file(files, path, read_to_string(path), build)

\* the report compile owes for a load error
FileReport(path, e) == [ctx |-> "File", path |-> path, lo |-> 0, len |-> 0, msg |-> e]

\* what C14 says of a compile call on path whose load failed with e
FatalLoad(path, e) ==
    /\ diags' = Append(diags, FileReport(path, e))
    /\ errors' = errors + 1
    /\ ret' = e
    /\ raw' = <<>> /\ emitted' = <<>> /\ cursor' = cursor
    /\ pc' = "idle"

\* C14 (fatal load errors): a compile call whose load_file fails, with Io or
\* OffsetOverflow, reports exactly one error, with the File context of the path
\* that failed, lexes no token of that file, returns the error, and leaves the
\* session ready for the next compile call.
C14_FatalLoadErrors ==
    [][\A path \in Paths :
         (Compile(path) /\ Loaded(path).panic = "" /\ Loaded(path).result \in LoadErrors)
         => FatalLoad(path, Loaded(path).result)]_vars

\* C14's case: a file that could not be read, reported once, and a later file
\* compiled to its end
C14_Witness ==
    /\ pc = "idle" /\ ret = "Ok" /\ raw # <<>>
    /\ diags # <<>> /\ diags[1] = FileReport("missing", "Io")
    /\ \A i \in 2..Len(diags) : diags[i].ctx = "Span"

\* C14's other case: the offset space used up, reported for the file refused
C14_WitnessOverflow ==
    /\ pc = "idle" /\ ret = "OffsetOverflowError"
    /\ diags # <<>> /\ diags[Len(diags)].msg = "OffsetOverflowError"

\* the sum of the span lengths of recorded tokens
RECURSIVE SumLen(_)
SumLen(rs) == IF rs = <<>> THEN 0 ELSE Head(rs).tok.len + SumLen(Tail(rs))

\* C15 (span tiling): over the tokens next_token returned for one file,
\* Whitespace and recovered strings included, the first span starts at the
\* file's start_pos, every span has a length of at least one, every span starts
\* where the one before it ends, and once the scanner is exhausted the lengths
\* add up to the byte length of the file's text.
C15_SpanTiling ==
    /\ raw # <<>> => raw[1].tok.lo = CurrentFile.start_pos
    /\ \A i \in 1..Len(raw) : raw[i].tok.len >= 1
    /\ \A i \in 1..(Len(raw) - 1) : raw[i + 1].tok.lo = raw[i].tok.lo + raw[i].tok.len
    /\ (pc = "idle" /\ ret = "Ok") => SumLen(raw) = ByteLen(CurrentFile.src)

\* the characters that have a token of their own: the punctuation, delimiter
\* and operator characters of next_token's match
FixedTokenChars ==
    {"/", "|", ",", ":", ";", "(", "[", "{", ")", "]", "}", "+", "-", "*", "=", ".", "%"}

\* a character an Unrecognized run is made of: not whitespace, not
\* XID_Continue, not the quote and not a character with a token of its own
UnknownChar(c) ==
    /\ ~char_is_whitespace(c)
    /\ ~is_xid_continue(c)
    /\ c # "\""
    /\ c \notin FixedTokenChars

\* C16 (unrecognized runs): an Unrecognized token is a run of characters that
\* are each not whitespace, not XID_Continue and not a character with a token
\* of its own, and the run is maximal: the character after it is not such a
\* character, so no two Unrecognized tokens are adjacent.
C16_UnrecognizedRuns ==
    /\ \A i \in 1..Len(raw) :
         raw[i].tok.kind = "Unrecognized"
         => /\ \A k \in 1..Len(TokText(raw[i])) : UnknownChar(TokText(raw[i])[k])
            /\ TextFrom(raw[i].off + raw[i].used) # <<>>
               => ~UnknownChar(Head(TextFrom(raw[i].off + raw[i].used)))
    /\ \A i \in 1..(Len(raw) - 1) :
         ~(raw[i].tok.kind = "Unrecognized" /\ raw[i + 1].tok.kind = "Unrecognized")

\* the index in s, the text after an opening quote, of the first quote from
\* index k on that is not the second character of an escape pair, the pairs
\* being matched from left to right; 0 when there is none
RECURSIVE CloseAt(_, _)
CloseAt(s, k) ==
    IF k > Len(s) THEN 0
    ELSE IF s[k] = "\"" THEN k
    ELSE IF s[k] = "\\" /\ k < Len(s) /\ s[k + 1] \in {"\\", "\""} THEN CloseAt(s, k + 2)
    ELSE CloseAt(s, k + 1)

\* what C17 says of the recorded token r, s being the text after its opening
\* quote and k the index of the closing quote
ClosedString(r, s, k) ==
    /\ ~r.tok.unclosed
    /\ r.tok.text = SubSeq(s, 1, k - 1)
    /\ r.used = 1 + ByteLen(SubSeq(s, 1, k))
    /\ r.tok.len = r.used

\* C17 (closed string literals): a quote followed by an unescaped closing
\* quote gives, without aborting, a StringLiteral that ends at the first quote
\* that is not the second character of an escape pair, is not unclosed, spans
\* both quotes and holds the raw text between them.
C17_ClosedString ==
    /\ ~(/\ AbortedIn("next_token")
         /\ peek(cursor.chars) = "\""
         /\ CloseAt(Tail(cursor.chars), 1) # 0)
    /\ \A i \in 1..Len(raw) :
         (raw[i].tok.kind = "StringLiteral" /\ CloseAt(Tail(TextFrom(raw[i].off)), 1) # 0)
         => ClosedString(raw[i], Tail(TextFrom(raw[i].off)),
                         CloseAt(Tail(TextFrom(raw[i].off)), 1))

\* C17's case: a closed string whose content holds an escaped quote, followed
\* by another token, the sequence ended
C17_Witness ==
    /\ pc = "idle"
    /\ \E i \in 1..(Len(raw) - 1) :
         /\ raw[i].tok.kind = "StringLiteral" /\ ~raw[i].tok.unclosed
         /\ raw[i].tok.text = <<"\\", "\"">>

\* the files of fs whose range, from start_pos to the end, holds the offset
Owners(fs, pos) ==
    {i \in 1..Len(fs) : fs[i].start_pos <= pos /\ pos <= fs[i].start_pos + ByteLen(fs[i].src)}

\* C18 (append-only source map): a load that succeeds adds exactly one file at
\* the end and leaves the files before it as they were; the collection stays
\* strictly ascending by start_pos, and an offset a file owned before the load
\* resolves to that file after it.
C18_AppendOnly ==
    [][files' # files
       => /\ Len(files') = Len(files) + 1
          /\ SubSeq(files', 1, Len(files)) = files
          /\ \A i \in 1..Len(files) : files'[i].start_pos < files'[i + 1].start_pos
          /\ \A pos \in 0..U32Max : \A i \in Owners(files, pos) :
                lookup_source_file(files', pos) = {i}]_vars

\* the part of C18 about the collection alone: one file added at the end, the
\* others untouched
C18_Frame ==
    [][files' # files
       => /\ Len(files') = Len(files) + 1
          /\ SubSeq(files', 1, Len(files)) = files]_vars

\* the part of C19 about the pulls that return: the items taken so far and
\* the bytes still unconsumed never add up to more than the bytes of the text,
\* every token consumed at least one byte, a sequence that has ended has
\* exhausted the input and ends again at a further pull, and an empty text
\* gives no item
C19_Bound ==
    /\ Len(emitted) + cursor.len_remaining <= ByteLen(CurrentFile.src)
    /\ \A i \in 1..Len(raw) : raw[i].used >= 1
    /\ pc = "idle"
       => /\ cursor.chars = <<>>
          /\ ~tokenize(cursor, build).some
          /\ tokenize(cursor, build).panic = ""
          /\ tokenize(cursor, build).cur = cursor
    /\ CurrentFile.src = <<>> => emitted = <<>> /\ raw = <<>>

\* C19 (termination and bound): for any text every pull on the sequence
\* returns, an item or the end; every next_token call on unconsumed input
\* consumes at least one byte, so the sequence ends after at most as many items
\* as the text has bytes; once it has ended a further pull gives the end again;
\* an empty text gives no item.
C19_TerminationBound == ~AbortedIn("next_token") /\ C19_Bound

\* C20 (a failed load leaves the map unchanged): a compile call whose
\* load_file fails, with Io or OffsetOverflow, leaves the file collection
\* exactly as it was, so that any load after it gets the result, and the
\* start_pos, it would have got before it.
C20_FailedLoadFrame ==
    [][\A path \in Paths :
         (Compile(path) /\ Loaded(path).panic = "" /\ Loaded(path).result \in LoadErrors)
         => /\ files' = files
            /\ \A next \in Paths :
                 load_file(files', next, read_to_string(next), build) = Loaded(next)]_vars

\* C20's case: a file compiled, then a load that failed, then a file loaded
\* at one past the end of the first
C20_Witness ==
    /\ Len(files) = 2 /\ calls = 3
    /\ Len(diags) >= 2 /\ diags[1].ctx = "Span" /\ diags[2] = FileReport("missing", "Io")
    /\ files[2].start_pos = files[1].start_pos + ByteLen(files[1].src) + 1

\* the index in T, the text from a literal's first character on, of the first
\* character after the two characters of its prefix that is not `_`
AfterSeparators(T) == FirstNot(T, 3, {"_"})

\* whether T starts with a radix prefix followed by no digit: by `_` only, up
\* to a character that is not an identifier character or to the end
EmptyLiteral(T) ==
    /\ Len(T) >= 2 /\ T[1] = "0" /\ T[2] \in {"b", "o", "x"}
    /\ AfterSeparators(T) = Len(T) + 1 \/ T[AfterSeparators(T)] \notin IdContinue

\* C21 (no empty-literal error): no token is IntLiteral(Err(Empty)); a radix
\* prefix followed by no digit, or by `_` only, before a character that is not
\* an identifier character or the end, is one token IntLiteral(Ok(0)) that
\* covers the prefix and the separators, and no error is reported for it.
C21_NoEmptyLiteralError ==
    /\ \A i \in 1..Len(raw) : raw[i].tok.err # "Empty"
    /\ \A i \in 1..Len(raw) :
         (raw[i].tok.kind = "IntLiteral" /\ EmptyLiteral(TextFrom(raw[i].off)))
         => /\ raw[i].tok.ok /\ raw[i].tok.val = 0
            /\ raw[i].used = AfterSeparators(TextFrom(raw[i].off)) - 1
            /\ raw[i].tok.len = raw[i].used
            /\ \A d \in 1..Len(diags) : diags[d].lo # raw[i].tok.lo
            /\ ~AbortedIn("span_to_location") \/ i < Len(raw)
    /\ ~(/\ AbortedIn("next_token")
         /\ cursor.chars # <<>> /\ Head(cursor.chars) \in Digits
         /\ EmptyLiteral(cursor.chars))

\* C21's case: the text `0x_` lexed as one token Ok(0) of three bytes, the
\* sequence ended with no error reported
C21_Witness ==
    /\ pc = "idle" /\ diags = <<>> /\ errors = 0
    /\ Len(raw) = 1 /\ raw[1].tok.kind = "IntLiteral"
    /\ EmptyLiteral(CurrentFile.src) /\ raw[1].used = 3

====
